---- MODULE Spec2Model ----
(***************************************************************************)
(* scripts/fetch-templates.py: the Data Dragon champion pipeline.          *)
(*                                                                         *)
(* One invocation of main() is a run: resolve the version, fetch the raw   *)
(* champion mapping, pick the target set, clean the icon directory, walk   *)
(* the sorted raw identifiers (filter, normalise, download the icon) and   *)
(* write the catalog.  The filesystem (catalog file, icon directory)       *)
(* outlives a run; everything else is local to main().                     *)
(*                                                                         *)
(* Strings that the code searches, slices or formats are sequences of      *)
(* one-character strings, so that `in`, re.search, split and f-strings are *)
(* computed character by character.  Opaque strings (version, display      *)
(* name, trait names) stay TLA+ strings.                                   *)
(***************************************************************************)
EXTENDS Integers, Sequences, FiniteSets, TLC

\* ------------------------------------------------------------------ bounds
\* Largest number of entries in one fetched champion mapping.
MaxChamps == 2
\* Number of invocations of the script over the same filesystem.
MaxRuns == 2

\* ------------------------------------------------------------- characters
\* None; also the empty dict, a missing file and "no match".
None == <<>>

DigitChars == <<"0", "1", "2", "3", "4", "5", "6", "7", "8", "9">>

IsDigit(c) == \E d \in 1..Len(DigitChars) : DigitChars[d] = c

Letters == {"A", "F", "S", "T", "e", "t", "p", "n", "g"}

\* \w of the re module: letters, digits and the underscore.
IsWord(c) == c \in Letters \/ IsDigit(c) \/ c = "_"

\* ord(c), the code point that orders str comparison.
Ord(c) ==
    CASE c = "." -> 46
      [] c = "/" -> 47
      [] IsDigit(c) -> 47 + (CHOOSE d \in 1..Len(DigitChars) : DigitChars[d] = c)
      [] c = "A" -> 65
      [] c = "F" -> 70
      [] c = "S" -> 83
      [] c = "T" -> 84
      [] c = "_" -> 95
      [] c = "e" -> 101
      [] c = "g" -> 103
      [] c = "n" -> 110
      [] c = "p" -> 112
      [] c = "t" -> 116

SetMax(S) == CHOOSE x \in S : \A y \in S : y <= x

SetMin(S) == CHOOSE x \in S : \A y \in S : x <= y

\* max(a, b) of Python.
Max(a, b) == IF b > a THEN b ELSE a

\* str < str: lexicographic by code point, a proper prefix first.
StrLess(a, b) ==
    \E k \in 1..(Len(b)) :
        /\ \A j \in 1..(k - 1) : j <= Len(a) /\ a[j] = b[j]
        /\ k - 1 <= Len(a)
        /\ (k > Len(a) \/ Ord(a[k]) < Ord(b[k]))

\* sorted(...) over a set of distinct strings.
RECURSIVE Sorted(_)
Sorted(S) ==
    IF S = {} THEN <<>>
    ELSE LET least == CHOOSE x \in S : \A y \in S \ {x} : StrLess(x, y)
         IN  <<least>> \o Sorted(S \ {least})

\* f"{n}" for a non-negative int.
RECURSIVE FormatInt(_)
FormatInt(n) ==
    IF n < 10 THEN <<DigitChars[n + 1]>>
    ELSE FormatInt(n \div 10) \o <<DigitChars[(n % 10) + 1]>>

\* int(s) for a non-empty run of digits.
RECURSIVE ParseInt(_)
ParseInt(s) ==
    IF s = <<>> THEN 0
    ELSE LET last == s[Len(s)]
             val  == (CHOOSE d \in 1..Len(DigitChars) : DigitChars[d] = last) - 1
         IN  10 * ParseInt(SubSeq(s, 1, Len(s) - 1)) + val

\* s[i:i+len(sub)] == sub
StartsAt(s, i, sub) ==
    /\ i >= 1
    /\ i + Len(sub) - 1 <= Len(s)
    /\ SubSeq(s, i, i + Len(sub) - 1) = sub

\* sub in s
Contains(s, sub) == \E i \in 1..(Len(s) + 1) : StartsAt(s, i, sub)

\* Last index of the longest run of digits starting at i (i - 1 if none).
DigitRunEnd(s, i) ==
    SetMax({j \in (i - 1)..Len(s) : \A k \in i..j : IsDigit(s[k])})

\* Last index of the longest run of \w characters starting at i (i - 1 if none).
WordRunEnd(s, i) ==
    SetMax({j \in (i - 1)..Len(s) : \A k \in i..j : IsWord(s[k])})

TFTSet == <<"T", "F", "T", "S", "e", "t">>

TFT == <<"T", "F", "T">>

DotPng == <<".", "p", "n", "g">>

\* re.search(r"TFTSet(\d+)", s): group 1 of the leftmost match, or None.
SearchTFTSet(s) ==
    LET at == {i \in 1..Len(s) :
                  /\ StartsAt(s, i, TFTSet)
                  /\ DigitRunEnd(s, i + Len(TFTSet)) >= i + Len(TFTSet)}
    IN  IF at = {} THEN None
        ELSE LET i == SetMin(at)
             IN  SubSeq(s, i + Len(TFTSet), DigitRunEnd(s, i + Len(TFTSet)))

\* re.search(r"(TFT\d+_\w+)", s): group 1 of the leftmost match, or None.
\* \d+ cannot give a digit back to "_", so it is the whole digit run.
SearchShortId(s) ==
    LET lastDigit(i) == DigitRunEnd(s, i + Len(TFT))
        at == {i \in 1..Len(s) :
                  /\ StartsAt(s, i, TFT)
                  /\ lastDigit(i) >= i + Len(TFT)
                  /\ StartsAt(s, lastDigit(i) + 1, <<"_">>)
                  /\ WordRunEnd(s, lastDigit(i) + 2) >= lastDigit(i) + 2}
    IN  IF at = {} THEN None
        ELSE LET i == SetMin(at)
             IN  SubSeq(s, i, WordRunEnd(s, lastDigit(i) + 2))

\* s.split("/")[-1]
LastSegment(s) ==
    LET slashes == {i \in 1..Len(s) : s[i] = "/"}
    IN  IF slashes = {} THEN s ELSE SubSeq(s, SetMax(slashes) + 1, Len(s))

\* ------------------------------------------------------------------ inputs
\* Raw identifiers the CDN may return.  "TFTSet15_TFT15_A" is the shape of
\* the reference fixture; the others carry only one marker form, a marker
\* below a path, two differing long markers, "Set" without "TFT", or none.
LongMarker(n) == TFTSet \o FormatInt(n)

ShortMarker(n) == TFT \o FormatInt(n) \o <<"_">>

Fixture(n) == LongMarker(n) \o <<"_">> \o ShortMarker(n) \o <<"A">>

RawIds ==
    { Fixture(15),
      Fixture(1),
      <<"A", "/">> \o ShortMarker(15) \o <<"A">>,
      LongMarker(15) \o <<"/", "A">>,
      LongMarker(1) \o <<"/">> \o LongMarker(15),
      <<"S", "e", "t">> \o FormatInt(15) \o <<"/", "A">>,
      <<"A">> }

\* Champion records of the CDN: one with every field the code reads, one
\* with none of them.
FullData ==
    [ name   |-> <<"A", "t", "e">>,
      tier   |-> 4,
      traits |-> << [name |-> "Mage", id |-> "TFT_Mage"], [id |-> "TFT_Duo"], [style |-> 1] >>,
      image  |-> [full |-> <<"A", ".", "T", "F", "T", ".", "p", "n", "g">>] ]

BareData == [ character_id |-> "x" ]

\* What the CDN holds for each raw identifier.
CdnRecord(id) == IF id \in {Fixture(15), Fixture(1)} THEN FullData ELSE BareData

\* Mappings data.get("data", {}) may return.
RawMappings ==
    { [id \in S |-> CdnRecord(id)] : S \in {T \in SUBSET RawIds : Cardinality(T) <= MaxChamps} }

Versions == {"15.1.1", "15.2.1"}

\* sys.argv: the script, optionally "--set" and optionally its value.
Script == <<"f", "e", "t", "c", "h">>

SetFlag == <<"-", "-", "s", "e", "t">>

ArgSets == {1, 15}

Argvs ==
    {<<Script>>, <<Script, SetFlag>>} \cup {<<Script, SetFlag, FormatInt(n)>> : n \in ArgSets}

\* Ways urlretrieve can end: the file written, an error before the file is
\* opened, an error after it was opened (the truncated file stays).
Outcomes == {"ok", "error", "truncated"}

\* ----------------------------------------------------------------- state
VARIABLES
    cdn,            \* what the CDN serves: [latest, data]
    pc,             \* position of the run inside main()
    runs,           \* invocations so far
    given_set,      \* target_set as lines 59-63 leave it
    target_set,     \* None, or <<n>> for the int n
    version,        \* "" until resolved
    raw_champions,  \* raw identifier -> champion record
    todo,           \* rest of sorted(raw_champions.items())
    champions,      \* the list built by the loop
    downloaded,     \* the counter of the loop
    requests,       \* URLs opened by this run
    summary,        \* the counts printed at the end
    raised,         \* "" or the stage whose exception ended the run
    catalog_file,   \* CHAMPIONS_JSON: None, or the JSON document
    templates_dir,  \* TEMPLATES_DIR: [exists, files: name -> content]
    before          \* catalog_file and templates_dir when the run started

vars == << cdn, pc, runs, given_set, target_set, version, raw_champions, todo, champions,
           downloaded, requests, summary, raised, catalog_file, templates_dir, before >>

NoDir == [exists |-> FALSE, files |-> <<>>]

\* Before the first run: no catalog, no icon directory.  The CDN serves one
\* latest version and one champion mapping to every run of a behaviour.
Init ==
    /\ cdn \in [latest : Versions, data : RawMappings]
    /\ pc = "idle"
    /\ runs = 0
    /\ given_set = None
    /\ target_set = None
    /\ version = ""
    /\ raw_champions = <<>>
    /\ todo = <<>>
    /\ champions = <<>>
    /\ downloaded = 0
    /\ requests = <<>>
    /\ summary = None
    /\ raised = ""
    /\ catalog_file = None
    /\ templates_dir = NoDir
    /\ before = [catalog_file |-> None, templates_dir |-> NoDir]

\* ------------------------------------------------------------ pure parts
\* d.get(k, default)
Get(d, k, default) == IF k \in DOMAIN d THEN d[k] ELSE default

\* sys.argv.index("--set")
ArgIndex(a) == SetMin({i \in 1..Len(a) : a[i] = SetFlag})

\* Lines 59-63: the value after "--set" as an int, None without one.
ParseSetArg(a) ==
    IF \E i \in 1..Len(a) : a[i] = SetFlag
    THEN IF ArgIndex(a) + 1 <= Len(a) THEN <<ParseInt(a[ArgIndex(a) + 1])>> ELSE None
    ELSE None

\* detect_current_set with "max_set = int(m.group(1))": the last match wins.
RECURSIVE DetectLastFrom(_, _)
DetectLastFrom(ids, max_set) ==
    IF ids = <<>> THEN max_set
    ELSE LET m == SearchTFTSet(Head(ids))
         IN  DetectLastFrom(Tail(ids), IF m # None THEN ParseInt(m) ELSE max_set)

detect_last_set(raw) == DetectLastFrom(Sorted(DOMAIN raw), 0)

\* detect_current_set: the loop over the identifiers, max_set starting at 0.
RECURSIVE DetectFrom(_, _)
DetectFrom(ids, max_set) ==
    IF ids = <<>> THEN max_set
    ELSE LET m == SearchTFTSet(Head(ids))
         IN  DetectFrom(Tail(ids), IF m # None THEN Max(max_set, ParseInt(m)) ELSE max_set)

detect_current_set(raw) == DetectFrom(Sorted(DOMAIN raw), 0)

SetPrefix(n) == TFTSet \o FormatInt(n)

ShortPrefix(n) == TFT \o FormatInt(n) \o <<"_">>

\* Line 90 negated: the record is kept.
Matches(champ_id, n) ==
    Contains(champ_id, SetPrefix(n)) \/ Contains(champ_id, ShortPrefix(n))

\* Lines 99-100.
ShortId(champ_id) ==
    LET m == SearchShortId(champ_id)
    IN  IF m # None THEN m ELSE LastSegment(champ_id)

\* Line 95.
TraitNames(traits) ==
    [i \in 1..Len(traits) |-> Get(traits[i], "name", Get(traits[i], "id", ""))]

\* Lines 93-108: the record appended for a kept identifier.
Record(champ_id, champ_data) ==
    [ id     |-> ShortId(champ_id),
      name   |-> Get(champ_data, "name", champ_id),
      cost   |-> Get(champ_data, "tier", 1),
      traits |-> TraitNames(Get(champ_data, "traits", <<>>)),
      icon   |-> ShortId(champ_id) \o DotPng ]

\* Line 96.
IconDdFile(champ_id, champ_data) ==
    Get(Get(champ_data, "image", None), "full", champ_id \o DotPng)

IconUrl(v, file) == [endpoint |-> "img/tft-champion", version |-> v, file |-> file]

\* Line 112: the file name below TEMPLATES_DIR.
IconPath(champ_id) == ShortId(champ_id) \o DotPng

\* download_icon without the os.path.exists test: every call fetches.
download_icon_always(url, path, outcome, dir) ==
    LET made == [exists |-> TRUE, files |-> dir.files]
        file(done) == (path :> [url |-> url, complete |-> done])
    IN  CASE outcome = "ok" ->
               [ok |-> TRUE, dir |-> [made EXCEPT !.files = file(TRUE) @@ @], opened |-> <<url>>]
          [] outcome = "truncated" ->
               [ok |-> FALSE, dir |-> [made EXCEPT !.files = file(FALSE) @@ @], opened |-> <<url>>]
          [] outcome = "error" ->
               [ok |-> FALSE, dir |-> made, opened |-> <<url>>]

\* download_icon: what it returns, the directory afterwards, the URL opened.
download_icon(url, path, outcome, dir) ==
    IF dir.exists /\ path \in DOMAIN dir.files
    THEN [ok |-> TRUE, dir |-> dir, opened |-> <<>>]
    ELSE LET made == [exists |-> TRUE, files |-> dir.files]
             file(done) == (path :> [url |-> url, complete |-> done])
         IN  CASE outcome = "ok" ->
                    [ok |-> TRUE, dir |-> [made EXCEPT !.files = file(TRUE) @@ @], opened |-> <<url>>]
               [] outcome = "truncated" ->
                    [ok |-> FALSE, dir |-> [made EXCEPT !.files = file(FALSE) @@ @], opened |-> <<url>>]
               [] outcome = "error" ->
                    [ok |-> FALSE, dir |-> made, opened |-> <<url>>]

\* Only os.makedirs(TEMPLATES_DIR, exist_ok=True): nothing is removed.
KeepTemplates(dir) == [exists |-> TRUE, files |-> dir.files]

\* Lines 81-83: rmtree and makedirs.
CleanTemplates(dir) == [exists |-> TRUE, files |-> <<>>]

\* Lines 118-124: the document written over CHAMPIONS_JSON.
WriteJson(v, n, champs) == [version |-> v, set |-> n, champions |-> champs]

\* ---------------------------------------------------------------- actions
\* The script is started: lines 58-65.
ParseArgs ==
    /\ pc \in {"idle", "done", "aborted"}
    /\ runs < MaxRuns
    /\ \E a \in Argvs :
        /\ given_set' = ParseSetArg(a)
        /\ target_set' = ParseSetArg(a)
    /\ runs' = runs + 1
    /\ pc' = "version"
    /\ version' = ""
    /\ raw_champions' = <<>>
    /\ todo' = <<>>
    /\ champions' = <<>>
    /\ downloaded' = 0
    /\ requests' = <<>>
    /\ summary' = None
    /\ raised' = ""
    /\ before' = [catalog_file |-> catalog_file, templates_dir |-> templates_dir]
    /\ UNCHANGED << cdn, catalog_file, templates_dir >>

\* get_latest_version with a fallback version in place of the exception.
GetLatestVersionFallback ==
    /\ pc = "version"
    /\ requests' = Append(requests, [endpoint |-> "api/versions.json"])
    /\ \/ /\ version' = cdn.latest
          /\ UNCHANGED raised
       \/ /\ raised' = "version"
          /\ version' = "0.0.0"
    /\ pc' = "champions"
    /\ UNCHANGED << cdn, runs, given_set, target_set, raw_champions, todo, champions, downloaded,
                    summary, catalog_file, templates_dir, before >>

\* Line 66: get_latest_version returns versions[0], or raises.
GetLatestVersion ==
    /\ pc = "version"
    /\ requests' = Append(requests, [endpoint |-> "api/versions.json"])
    /\ \/ /\ version' = cdn.latest
          /\ pc' = "champions"
          /\ UNCHANGED raised
       \/ /\ raised' = "version"
          /\ pc' = "aborted"
          /\ UNCHANGED version
    /\ UNCHANGED << cdn, runs, given_set, target_set, raw_champions, todo, champions, downloaded,
                    summary, catalog_file, templates_dir, before >>

\* fetch_tft_champions with the exception caught and {} returned.
FetchTftChampionsLenient ==
    /\ pc = "champions"
    /\ requests' = Append(requests, [endpoint |-> "data/en_US/tft-champion.json", version |-> version])
    /\ \/ /\ raw_champions' = cdn.data
          /\ UNCHANGED raised
       \/ /\ raised' = "champions"
          /\ raw_champions' = <<>>
    /\ pc' = "select"
    /\ UNCHANGED << cdn, runs, given_set, target_set, version, todo, champions, downloaded,
                    summary, catalog_file, templates_dir, before >>

\* Line 70: fetch_tft_champions returns data.get("data", {}), or raises.
FetchTftChampions ==
    /\ pc = "champions"
    /\ requests' = Append(requests, [endpoint |-> "data/en_US/tft-champion.json", version |-> version])
    /\ \/ /\ raw_champions' = cdn.data
          /\ pc' = "select"
          /\ UNCHANGED raised
       \/ /\ raised' = "champions"
          /\ pc' = "aborted"
          /\ UNCHANGED raw_champions
    /\ UNCHANGED << cdn, runs, given_set, target_set, version, todo, champions, downloaded,
                    summary, catalog_file, templates_dir, before >>

\* Lines 73-88: the target set, the clean directory, the start of the loop.
SelectSet ==
    /\ pc = "select"
    /\ target_set' = IF target_set = None THEN <<detect_current_set(raw_champions)>>
                     ELSE target_set
    /\ templates_dir' = CleanTemplates(templates_dir)
    /\ champions' = <<>>
    /\ downloaded' = 0
    /\ todo' = Sorted(DOMAIN raw_champions)
    /\ pc' = "loop"
    /\ UNCHANGED << cdn, runs, given_set, version, raw_champions, requests, summary, raised,
                    catalog_file, before >>

\* The loop with the download's exception left uncaught: a failed icon ends
\* the run.
LoopStepFailing ==
    /\ pc = "loop"
    /\ todo # <<>>
    /\ LET champ_id   == Head(todo)
           champ_data == raw_champions[champ_id]
       IN  IF ~Matches(champ_id, target_set[1])
           THEN UNCHANGED << pc, champions, downloaded, requests, templates_dir >>
           ELSE \E outcome \in Outcomes :
                  LET url == IconUrl(version, IconDdFile(champ_id, champ_data))
                      got == download_icon(url, IconPath(champ_id), outcome, templates_dir)
                  IN  /\ champions' = Append(champions, Record(champ_id, champ_data))
                      /\ templates_dir' = got.dir
                      /\ requests' = requests \o got.opened
                      /\ downloaded' = IF got.ok THEN downloaded + 1 ELSE downloaded
                      /\ pc' = IF got.ok THEN pc ELSE "aborted"
    /\ todo' = Tail(todo)
    /\ UNCHANGED << cdn, runs, given_set, target_set, version, raw_champions, summary, raised,
                    catalog_file, before >>

\* Lines 88-114: one iteration of the loop.
LoopStep ==
    /\ pc = "loop"
    /\ todo # <<>>
    /\ LET champ_id   == Head(todo)
           champ_data == raw_champions[champ_id]
       IN  IF ~Matches(champ_id, target_set[1])
           THEN UNCHANGED << champions, downloaded, requests, templates_dir >>
           ELSE \E outcome \in Outcomes :
                  LET url == IconUrl(version, IconDdFile(champ_id, champ_data))
                      got == download_icon(url, IconPath(champ_id), outcome, templates_dir)
                  IN  /\ champions' = Append(champions, Record(champ_id, champ_data))
                      /\ templates_dir' = got.dir
                      /\ requests' = requests \o got.opened
                      /\ downloaded' = IF got.ok THEN downloaded + 1 ELSE downloaded
    /\ todo' = Tail(todo)
    /\ UNCHANGED << cdn, pc, runs, given_set, target_set, version, raw_champions, summary, raised,
                    catalog_file, before >>

\* The writer appending to the champions already in the file.
WriteCatalogMerging ==
    /\ pc = "loop"
    /\ todo = <<>>
    /\ catalog_file' =
          WriteJson(version, target_set[1],
                    (IF catalog_file = None THEN <<>> ELSE catalog_file.champions) \o champions)
    /\ summary' = [set |-> target_set[1], champions |-> Len(champions), icons |-> downloaded]
    /\ pc' = "done"
    /\ UNCHANGED << cdn, runs, given_set, target_set, version, raw_champions, todo, champions,
                    downloaded, requests, raised, templates_dir, before >>

\* Lines 116-128: the catalog is written and the counts are printed.
WriteCatalog ==
    /\ pc = "loop"
    /\ todo = <<>>
    /\ catalog_file' = WriteJson(version, target_set[1], champions)
    /\ summary' = [set |-> target_set[1], champions |-> Len(champions), icons |-> downloaded]
    /\ pc' = "done"
    /\ UNCHANGED << cdn, runs, given_set, target_set, version, raw_champions, todo, champions,
                    downloaded, requests, raised, templates_dir, before >>

Next ==
    \/ ParseArgs
    \/ GetLatestVersion
    \/ FetchTftChampions
    \/ SelectSet
    \/ LoopStep
    \/ WriteCatalog

Spec == Init /\ [][Next]_vars

\* ----------------------------------------------------------------- claims
\* The run has written its catalog and printed its summary.
Completed == pc = "done"

\* The record of a raw identifier is in the list built by the loop.
Kept(id) == \E i \in 1..Len(champions) : champions[i] = Record(id, raw_champions[id])

\* Numbers N whose long marker TFTSet<N> is in s, N being the whole digit run.
LongMarkerSets(s) ==
    { ParseInt(SubSeq(s, i + Len(TFTSet), DigitRunEnd(s, i + Len(TFTSet)))) :
        i \in {j \in 1..Len(s) : /\ StartsAt(s, j, TFTSet)
                                 /\ DigitRunEnd(s, j + Len(TFTSet)) >= j + Len(TFTSet)} }

\* Numbers N whose short marker TFT<N>_ is in s.
ShortMarkerSets(s) ==
    { ParseInt(SubSeq(s, i + Len(TFT), DigitRunEnd(s, i + Len(TFT)))) :
        i \in {j \in 1..Len(s) : /\ StartsAt(s, j, TFT)
                                 /\ DigitRunEnd(s, j + Len(TFT)) >= j + Len(TFT)
                                 /\ StartsAt(s, DigitRunEnd(s, j + Len(TFT)) + 1, <<"_">>)} }

MarkerSets(s) == LongMarkerSets(s) \cup ShortMarkerSets(s)

\* C1: a raw identifier that carries the marker of set N (and of no other
\* set) is in the output when the target set is N and is left out when the
\* target set is any other number.
C1_SetFilter ==
    Completed =>
        \A id \in DOMAIN raw_champions :
            \A n \in MarkerSets(id) :
                MarkerSets(id) = {n} => (Kept(id) <=> target_set[1] = n)

\* Numbers that follow any occurrence of "Set" in s.
AnySetNumbers(s) ==
    LET set == <<"S", "e", "t">>
    IN  { ParseInt(SubSeq(s, i + Len(set), DigitRunEnd(s, i + Len(set)))) :
            i \in {j \in 1..Len(s) : /\ StartsAt(s, j, set)
                                     /\ DigitRunEnd(s, j + Len(set)) >= j + Len(set)} }

\* The number of the leftmost TFTSet<digits> of s: the N such that "TFTSet" +
\* str(N) stands at some place, no digit follows it, and no "TFTSet" with a
\* digit behind it stands further left.
FirstLongMarker(s) ==
    { n \in AnySetNumbers(s) :
        \E i \in 1..Len(s) :
            /\ StartsAt(s, i, TFTSet \o FormatInt(n))
            /\ ~(\E d \in 1..Len(DigitChars) :
                    StartsAt(s, i, TFTSet \o FormatInt(n) \o <<DigitChars[d]>>))
            /\ ~(\E j \in 1..(i - 1), d \in 1..Len(DigitChars) :
                    StartsAt(s, j, TFTSet \o <<DigitChars[d]>>)) }

\* No value follows "--set" (or "--set" is absent): the set is detected.
AutoDetected == pc \in {"loop", "done"} /\ given_set = None

C3_FetchFailureYieldsEmptyMapping ==
    raised = "champions" => pc # "aborted" /\ raw_champions = <<>>

\* C3 amended: a failed champion-data fetch ends the run there, with the
\* catalog and the icon directory as they were and no summary; a run whose
\* fetch returned an empty mapping finishes with an empty champion list.
C3_FetchFailureAborts ==
    /\ raised = "champions" =>
          /\ pc = "aborted"
          /\ catalog_file = before.catalog_file
          /\ templates_dir = before.templates_dir
          /\ summary = None
    /\ (Completed /\ raw_champions = <<>>) => catalog_file.champions = <<>>

\* The fetch failed after the version was resolved, over an earlier catalog.
C3_Witness ==
    /\ raised = "champions"
    /\ version # ""
    /\ before.catalog_file # None
    /\ before.catalog_file.champions # <<>>

\* C4 as claimed: an icon file that exists when the run starts has the same
\* content when the run is complete.
C4_PreexistingIconUnchanged ==
    Completed =>
        \A f \in DOMAIN before.templates_dir.files :
            /\ f \in DOMAIN templates_dir.files
            /\ templates_dir.files[f] = before.templates_dir.files[f]

\* C4 amended: an icon file that exists when its download comes up in the
\* loop is neither fetched nor rewritten; the files that exist when the run
\* starts are all removed before the loop.
C4_ExistingIconSkipped ==
    [][ /\ pc = "loop" =>
            /\ \A f \in DOMAIN templates_dir.files :
                  /\ f \in DOMAIN templates_dir'.files
                  /\ templates_dir'.files[f] = templates_dir.files[f]
            /\ (todo # <<>> /\ IconPath(Head(todo)) \in DOMAIN templates_dir.files) =>
                  requests' = requests
        /\ pc = "select" => templates_dir'.files = <<>>
      ]_vars

\* Two downloads returned True and only one icon was fetched: the second
\* found the file of the first.
C4_Witness ==
    /\ pc = "loop"
    /\ downloaded = 2
    /\ Len(requests) = 3
    /\ Cardinality(DOMAIN templates_dir.files) = 1
    /\ before.templates_dir.files # <<>>

\* C5: no two records of a written catalog have the same id.
C5_UniqueIds ==
    Completed =>
        \A i, j \in 1..Len(catalog_file.champions) :
            i # j => catalog_file.champions[i].id # catalog_file.champions[j].id

\* C6: a failed icon download never ends the run: a run ends early only on
\* the version or the champion-data request, before any champion is handled,
\* and a complete run's catalog has, for every kept identifier, a record
\* whose icon is <id>.png, downloaded or not.
C6_IconFailureNotFatal ==
    /\ pc = "aborted" => raised \in {"version", "champions"} /\ champions = <<>>
    /\ Completed =>
          \A id \in DOMAIN raw_champions :
              Matches(id, target_set[1]) =>
                  LET short_id == ShortId(id)
                  IN  \E i \in 1..Len(catalog_file.champions) :
                        /\ catalog_file.champions[i].id = short_id
                        /\ catalog_file.champions[i].icon = short_id \o DotPng

\* A complete run in which one icon failed and the next champion's icon was
\* downloaded.
C6_Witness ==
    /\ Completed
    /\ \E i \in 1..(Len(catalog_file.champions) - 1) :
          /\ catalog_file.champions[i].icon \notin DOMAIN templates_dir.files
          /\ catalog_file.champions[i + 1].icon \in DOMAIN templates_dir.files

\* C7: when version resolution fails the run ends there: no version, no
\* champion data, no request but the versions request, no summary, and the
\* catalog and the icon directory as they were.
C7_VersionFailureAborts ==
    raised = "version" =>
        /\ pc = "aborted"
        /\ version = ""
        /\ raw_champions = <<>>
        /\ requests = << [endpoint |-> "api/versions.json"] >>
        /\ champions = <<>>
        /\ summary = None
        /\ catalog_file = before.catalog_file
        /\ templates_dir = before.templates_dir

\* Version resolution failed over a catalog and icons of an earlier run.
C7_Witness ==
    /\ raised = "version"
    /\ before.catalog_file # None
    /\ before.templates_dir.files # <<>>

\* C8: after a complete run every file of the icon directory is <id>.png for
\* an id of the catalog that run wrote.
C8_NoStaleIcons ==
    Completed =>
        \A f \in DOMAIN templates_dir.files :
            \E i \in 1..Len(catalog_file.champions) :
                f = catalog_file.champions[i].id \o DotPng

\* A second complete run, for another set, that dropped an icon of the run
\* before it and has icons of its own.
C8_Witness ==
    /\ Completed
    /\ runs >= 2
    /\ before.catalog_file # None
    /\ before.catalog_file.set # catalog_file.set
    /\ templates_dir.files # <<>>
    /\ \E f \in DOMAIN before.templates_dir.files : f \notin DOMAIN templates_dir.files

\* No transfer of this run broke off midway.
NoTruncatedIcon ==
    \A f \in DOMAIN templates_dir.files : templates_dir.files[f].complete

\* C9: the printed champion count is the number of records in the catalog
\* and the printed icon count is the number of files in the icon directory;
\* stated for the runs that left no truncated file, where every file present
\* is an icon that was downloaded.
C9_SummaryCounts ==
    (Completed /\ NoTruncatedIcon) =>
        /\ summary.champions = Len(catalog_file.champions)
        /\ summary.icons = Cardinality(DOMAIN templates_dir.files)

\* The identifiers the filter keeps, in sorted order.
KeptIds(raw, n) == Sorted({id \in DOMAIN raw : Matches(id, n)})

\* C10: the catalog of a complete run is this run's version, this run's
\* target set (the --set value when one was given) and the records of the
\* identifiers kept for that set, in sorted order, whatever the file held.
C10_CatalogOverwritten ==
    Completed =>
        /\ catalog_file.version = version
        /\ catalog_file.set = target_set[1]
        /\ given_set # None => catalog_file.set = given_set[1]
        /\ LET kept == KeptIds(raw_champions, target_set[1])
           IN  catalog_file.champions =
                  [i \in 1..Len(kept) |-> Record(kept[i], raw_champions[kept[i]])]

\* A complete run for set B over the catalog of a run for set A, both with
\* champions.
C10_Witness ==
    /\ Completed
    /\ before.catalog_file # None
    /\ before.catalog_file.set # catalog_file.set
    /\ before.catalog_file.champions # <<>>
    /\ catalog_file.champions # <<>>
    /\ before.catalog_file.champions # catalog_file.champions

====
